---- MODULE Spec2Model ----
(***************************************************************************)
(* MqttPubSubClient (sdk/pubsub/MqttPubSubClient.cpp): the publish /       *)
(* subscribe adapter over the broker client library.                       *)
(*                                                                         *)
(* Threads of the program, each with its own position:                     *)
(*   - the caller thread, which calls the public operations one at a time  *)
(*     (callerPc, op, topic, data, requested, timeout_ms);                 *)
(*   - the background publish task started by std::async (task);           *)
(*   - the broker library's I/O thread, which runs message_arrived (io);   *)
(*   - the workers of the shared thread pool, which run delivery jobs      *)
(*     (queue, running).                                                   *)
(* The broker library is the environment: each of its calls completes,     *)
(* fails with an exception, or stays pending, nondeterministically.        *)
(***************************************************************************)
EXTENDS Integers, Sequences, FiniteSets

(* ------------------------------ bounds -------------------------------- *)
\* subscribeTopic calls in one run (each makes one fresh handle)
MaxSubs == 2
\* inbound messages in one run
MaxMsgs == 2
\* worker threads of the shared pool
NumWorkers == 2

(* --------------------------- program constants ------------------------ *)
MAX_TIMEOUT_MS == 30000

(* ------------------------------ inputs -------------------------------- *)
\* A topic is the sequence of its levels: "a/b" is <<"a","b">>.
SubTopics == { <<"a", "b">>, <<"a", "+">> }
MsgTopics == { <<"a", "b">>, <<"a", "c">> }
Payloads  == { "p", "q" }
\* non-positive, in range, the cap itself, above the cap
Timeouts  == { -1, 0, 1, 30000, 30001 }
\* what a call into the broker library can raise: mqtt::exception, or
\* another std::exception (std::bad_alloc, std::system_error, ...)
ErrorKinds == { "mqtt", "std" }

Subs == 1..MaxSubs

VARIABLES
  connected,        \* m_client.is_connected()
  m_subscriberMap,  \* the multimap, as the set of its (topic, handle) records
  nextSub,          \* the next handle std::make_shared creates
  inbox,            \* per handle: the items and errors it received, in order
  callerPc,         \* where the caller thread is
  op,               \* the operation the caller thread is in, or was in last
  topic,            \* its topic argument
  data,             \* its data argument
  requested,        \* its timeout argument as passed
  timeout_ms,       \* the timeout variable of the call (reassigned by the cap)
  ret,              \* how the last call ended: returned a value, or threw
  timerExpired,     \* wait_for of the last timed publish ended by its timer
  task,             \* the std::async publish task
  handed,           \* requests the current (or last) call handed to the broker
                    \* client: messages to publish, a subscribe, an unsubscribe
  acked,            \* those of them the broker acknowledged
  io,               \* message_arrived on the I/O thread.  Its position (pc):
                    \* idle; inside equal_range (lookup); at the top of a
                    \* turn of the loop, before it->second is read (iter);
                    \* holding the copied shared_ptr, before the enqueue
                    \* (copied); past the enqueue, before ++it (advance); or
                    \* ended by a fault (crashed).  Its message (msg, topic,
                    \* payload), the handles its lookup found and the loop
                    \* has still to visit (pending), the handle it copied
                    \* (cur), those it enqueued a job for (enq), and whether
                    \* the map was written since the lookup began (racy).
                    \* For the properties: the handles registered under the
                    \* message's topic when it was looked up (range), and,
                    \* while the handler runs, whether the message arrived
                    \* while a subscribeTopic or an unsubscribeTopic of its
                    \* topic was waiting for the broker (callerAt)
  nMsgs,            \* the number of inbound messages so far
  queue,            \* ThreadPool: jobs enqueued and not yet taken
  running,          \* ThreadPool: jobs a worker is running
  escaped,          \* jobs that ended by an exception leaving the job
  log,              \* what the current (or last) call logged
  unsubscribed      \* topics whose unsubscribeTopic returned, with no
                    \* subscribeTopic of the topic since

vars == << connected, m_subscriberMap, nextSub, inbox, callerPc, op, topic,
           data, requested, timeout_ms, ret, timerExpired, task, handed,
           acked, io, nMsgs, queue, running, escaped, log,
           unsubscribed >>

callVars == << op, topic, data, requested, timeout_ms >>
poolVars == << queue, running, escaped, inbox >>
taskVars == << task, handed, acked, timerExpired >>
mapVars  == << m_subscriberMap, nextSub, unsubscribed >>

NoTopic == << >>
NoRet   == [kind |-> "none", val |-> "none"]
Returned(v) == [kind |-> "returned", val |-> v]
Threw(k)    == [kind |-> "threw", val |-> k]
IdleTask == [pc |-> "none", err |-> "none"]
IdleIo   == [pc |-> "idle", msg |-> 0, topic |-> NoTopic, payload |-> "none",
             range |-> {}, pending |-> {}, enq |-> {}, cur |-> 0,
             racy |-> FALSE, callerAt |-> "other"]

Init ==
  /\ connected = FALSE
  /\ m_subscriberMap = {}
  /\ nextSub = 1
  /\ inbox = [h \in Subs |-> << >>]
  /\ callerPc = "idle"
  /\ op = "none"
  /\ topic = NoTopic
  /\ data = "none"
  /\ requested = 0
  /\ timeout_ms = 0
  /\ ret = NoRet
  /\ timerExpired = FALSE
  /\ task = IdleTask
  /\ handed = {}
  /\ acked = {}
  /\ io = IdleIo
  /\ nMsgs = 0
  /\ queue = << >>
  /\ running = {}
  /\ escaped = {}
  /\ log = {}
  /\ unsubscribed = {}

(* The process runs: it has not been ended by a fault of the I/O thread    *)
(* (see Faulted).  Once it has, no thread takes another step.              *)
Alive == io.pc # "crashed"

(* A call begins: the caller thread is idle, and the call's arguments and  *)
(* log replace those of the call before.                                   *)
Enter(o, t, d, r) ==
  /\ Alive
  /\ callerPc = "idle"
  /\ op' = o
  /\ topic' = t
  /\ data' = d
  /\ requested' = r

\* a call that starts no publish: nothing of the call before is left
NoPublish ==
  /\ task' = IdleTask
  /\ timerExpired' = FALSE
  /\ handed' = {}
  /\ acked' = {}

(* ---------------------------------------------------------------------- *)
(* connect, disconnect, isConnected                                       *)
(* ---------------------------------------------------------------------- *)
IsConnected == connected

\* info log, the warning when getenv("MQTT_BROKER_URI") is not null, then
\* m_client.connect(m_connectOptions): a token to wait on, or a throw
Connect ==
  /\ Enter("connect", NoTopic, "none", 0)
  /\ \E out \in {"token"} \cup ErrorKinds :
       IF out = "token"
         THEN callerPc' = "connect_wait" /\ ret' = NoRet
         ELSE callerPc' = "idle" /\ ret' = Threw(out)
  /\ \E brokerUriSet \in BOOLEAN :
       log' = {<<"info", "connecting">>} \cup
              (IF brokerUriSet
                 THEN {<<"warn", "deprecated MQTT_BROKER_URI ignored">>}
                 ELSE {})
  /\ UNCHANGED << connected, mapVars, timeout_ms, io, nMsgs >>
  /\ NoPublish
  /\ UNCHANGED poolVars

ConnectWait ==
  /\ Alive
  /\ callerPc = "connect_wait"
  /\ callerPc' = "idle"
  /\ \E out \in {"ok", "mqtt"} :
       IF out = "ok"
         THEN connected' = TRUE /\ ret' = Returned("void")
         ELSE connected' = connected /\ ret' = Threw(out)
  /\ UNCHANGED << mapVars, callVars, io, nMsgs, log >>
  /\ UNCHANGED << poolVars, taskVars >>

Disconnect ==
  /\ Enter("disconnect", NoTopic, "none", 0)
  /\ \E out \in {"token"} \cup ErrorKinds :
       IF out = "token"
         THEN callerPc' = "disconnect_wait" /\ ret' = NoRet
         ELSE callerPc' = "idle" /\ ret' = Threw(out)
  /\ log' = {}
  /\ UNCHANGED << connected, mapVars, timeout_ms, io, nMsgs >>
  /\ NoPublish
  /\ UNCHANGED poolVars

DisconnectWait ==
  /\ Alive
  /\ callerPc = "disconnect_wait"
  /\ callerPc' = "idle"
  /\ \E out \in {"ok", "mqtt"} :
       IF out = "ok"
         THEN connected' = FALSE /\ ret' = Returned("void")
         ELSE connected' = connected /\ ret' = Threw(out)
  /\ UNCHANGED << mapVars, callVars, io, nMsgs, log >>
  /\ UNCHANGED << poolVars, taskVars >>

\* the broker library reports the connection lost
ConnectionLost ==
  /\ Alive
  /\ connected
  /\ connected' = FALSE
  /\ UNCHANGED << mapVars, callerPc, callVars, ret, io, nMsgs,
                  log >>
  /\ UNCHANGED << poolVars, taskVars >>

(* ---------------------------------------------------------------------- *)
(* reconnect(timeout_ms)                                                  *)
(* ---------------------------------------------------------------------- *)
\* faulty variant: the validation lets a timeout of 0 through
ReconnectRejectsBelowZero(t) == t < 0

\* the validation of reconnect: if (timeout_ms <= 0) log an error and return
ReconnectRejects(t) == t <= 0

\* the cap of reconnect: if (timeout_ms > MAX_TIMEOUT_MS) timeout_ms = MAX
ReconnectCap(t) == IF t > MAX_TIMEOUT_MS THEN MAX_TIMEOUT_MS ELSE t

\* which exceptions reconnect's try block catches: mqtt::exception only
ReconnectCatches(k) == k = "mqtt"

\* how reconnect ends when the library raised k inside the try block, l
\* being what the call logged so far
ReconnectRaised(k, l) ==
  IF ReconnectCatches(k)
    THEN /\ ret' = Returned("void")
         /\ log' = l \cup {<<"error", "reconnect failed">>}
    ELSE /\ ret' = Threw(k)
         /\ log' = l

Reconnect ==
  \E t \in Timeouts :
    /\ Enter("reconnect", NoTopic, "none", t)
    /\ IF ReconnectRejects(t)
         THEN /\ log' = {<<"info", "reconnecting">>, <<"error", "invalid timeout">>}
              /\ timeout_ms' = t
              /\ callerPc' = "idle"
              /\ ret' = Returned("void")
         ELSE /\ timeout_ms' = ReconnectCap(t)
              /\ \E out \in {"token"} \cup ErrorKinds :
                   LET l == {<<"info", "reconnecting">>} \cup
                            (IF t > MAX_TIMEOUT_MS
                               THEN {<<"warn", "timeout capped">>} ELSE {})
                   IN  IF out = "token"
                         THEN /\ callerPc' = "reconnect_wait"
                              /\ ret' = NoRet
                              /\ log' = l
                         ELSE /\ callerPc' = "idle"
                              /\ ReconnectRaised(out, l)
    /\ UNCHANGED << connected, mapVars, io, nMsgs >>
    /\ NoPublish
    /\ UNCHANGED poolVars

\* token->wait_for(timeout_ms): completed in time, timer first, or raised
ReconnectWait ==
  /\ Alive
  /\ callerPc = "reconnect_wait"
  /\ callerPc' = "idle"
  /\ \E out \in {"ok", "timeout"} \cup ErrorKinds :
       CASE out = "ok" ->
              /\ connected' = TRUE
              /\ ret' = Returned("void")
              /\ log' = log \cup {<<"info", "reconnected">>}
         [] out = "timeout" ->
              /\ connected' = connected
              /\ ret' = Returned("void")
              /\ log' = log \cup {<<"error", "reconnect timed out", timeout_ms>>}
         [] OTHER ->
              /\ connected' = connected
              /\ ReconnectRaised(out, log)
  /\ UNCHANGED << mapVars, callVars, io, nMsgs >>
  /\ UNCHANGED << poolVars, taskVars >>

(* ---------------------------------------------------------------------- *)
(* publishOnTopic(topic, data): blocks until the broker acknowledged      *)
(* ---------------------------------------------------------------------- *)
PublishOnTopic ==
  \E t \in MsgTopics, d \in Payloads :
    /\ Enter("publishOnTopic", t, d, 0)
    /\ log' = {<<"debug", "publish">>}
    /\ \E out \in {"token"} \cup ErrorKinds :
         IF out = "token"
           THEN /\ callerPc' = "publish_wait"
                /\ ret' = NoRet
                /\ handed' = {<<t, d>>}
           ELSE /\ callerPc' = "idle"
                /\ ret' = Threw(out)
                /\ handed' = {}
    /\ UNCHANGED << connected, mapVars, timeout_ms, io, nMsgs >>
    /\ task' = IdleTask /\ timerExpired' = FALSE /\ acked' = {}
    /\ UNCHANGED poolVars

PublishWait ==
  /\ Alive
  /\ callerPc = "publish_wait"
  /\ callerPc' = "idle"
  /\ \E out \in {"ok", "mqtt"} :
       IF out = "ok"
         THEN acked' = acked \cup {<<topic, data>>} /\ ret' = Returned("void")
         ELSE acked' = acked /\ ret' = Threw(out)
  /\ UNCHANGED << connected, mapVars, callVars, io, nMsgs, log >>
  /\ UNCHANGED << poolVars, task, handed, timerExpired >>

(* ---------------------------------------------------------------------- *)
(* publishOnTopic(topic, data, timeout_ms)                                *)
(* ---------------------------------------------------------------------- *)
\* faulty variant: the validation lets a timeout of 0 through
PublishRejectsBelowZero(t) == t < 0

\* the validation of the timeout: if (timeout_ms <= 0) return Timeout
PublishRejects(t) == t <= 0

\* faulty variant: the timed publish without its cap
PublishCapMissing(t) == t

\* the cap of the timed publish
PublishCap(t) == IF t > MAX_TIMEOUT_MS THEN MAX_TIMEOUT_MS ELSE t

\* faulty variant: the timed publish without its catch of std::exception
PublishCatchesMqttOnly(k) == k = "mqtt"

\* the catch clauses of the timed publish: mqtt::exception, std::exception
PublishCatches(k) == k \in {"mqtt", "std"}

\* the call up to future.wait_for: validation, cap, std::async, which starts
\* the task or throws std::system_error when no thread can be started
PublishOnTopicTimeout ==
  \E t \in MsgTopics, d \in Payloads, ms \in Timeouts :
    /\ Enter("publishOnTopicTimeout", t, d, ms)
    /\ IF PublishRejects(ms)
         THEN /\ log' = {<<"warn", "invalid timeout">>}
              /\ timeout_ms' = ms
              /\ callerPc' = "idle"
              /\ ret' = Returned("Timeout")
              /\ task' = IdleTask
              /\ timerExpired' = FALSE
         ELSE /\ timeout_ms' = PublishCap(ms)
              /\ timerExpired' = FALSE
              /\ \E out \in {"started", "std"} :
                   LET l == {<<"debug", "publish">>} \cup
                            (IF ms > MAX_TIMEOUT_MS
                               THEN {<<"warn", "timeout capped">>} ELSE {})
                   IN  IF out = "started"
                         THEN /\ task' = [pc |-> "running", err |-> "none"]
                              /\ callerPc' = "pub_wait_for"
                              /\ ret' = NoRet
                              /\ log' = l
                         ELSE /\ task' = IdleTask
                              /\ callerPc' = "idle"
                              /\ IF PublishCatches(out)
                                   THEN /\ ret' = Returned("Failure")
                                        /\ log' = l \cup {<<"error",
                                                   "publish failed", out>>}
                                   ELSE /\ ret' = Threw(out)
                                        /\ log' = l
    /\ handed' = {}
    /\ acked' = {}
    /\ UNCHANGED << connected, mapVars, io, nMsgs >>
    /\ UNCHANGED poolVars

\* the task's m_client.publish(topic, data), reading the caller's topic and
\* data through the references it captured: a token, no token, or a throw
TaskPublish ==
  /\ Alive
  /\ task.pc = "running"
  /\ \E out \in {"token", "null"} \cup ErrorKinds :
       CASE out = "token" ->
              /\ task' = [task EXCEPT !.pc = "waiting"]
              /\ handed' = handed \cup {<<topic, data>>}
         [] out = "null" ->
              /\ task' = [pc |-> "failed", err |-> "mqtt"]
              /\ handed' = handed
         [] OTHER ->
              /\ task' = [pc |-> "failed", err |-> out]
              /\ handed' = handed
  /\ UNCHANGED << connected, mapVars, callerPc, callVars, ret, io, nMsgs, log,
                  acked, timerExpired >>
  /\ UNCHANGED poolVars

\* the task's tok->wait(): the broker acknowledges, or the wait throws
TaskWait ==
  /\ Alive
  /\ task.pc = "waiting"
  /\ \E out \in {"ok", "mqtt"} :
       IF out = "ok"
         THEN /\ task' = [task EXCEPT !.pc = "ok"]
              /\ acked' = acked \cup {<<topic, data>>}
         ELSE /\ task' = [pc |-> "failed", err |-> out]
              /\ acked' = acked
  /\ UNCHANGED << connected, mapVars, callerPc, callVars, ret, io, nMsgs, log,
                  handed, timerExpired >>
  /\ UNCHANGED poolVars

TaskDone == task.pc \in {"ok", "failed"}

\* wait_for returned ready: future.get() gives Success or rethrows
FutureReady ==
  /\ Alive
  /\ callerPc = "pub_wait_for"
  /\ TaskDone
  /\ callerPc' = "idle"
  /\ IF task.pc = "ok"
       THEN ret' = Returned("Success") /\ log' = log
       ELSE IF PublishCatches(task.err)
              THEN /\ ret' = Returned("Failure")
                   /\ log' = log \cup {<<"error", "publish failed", task.err>>}
              ELSE ret' = Threw(task.err) /\ log' = log
  /\ UNCHANGED << connected, mapVars, callVars, io, nMsgs >>
  /\ UNCHANGED << poolVars, taskVars >>

\* faulty variant: the timeout abandons the task, which is never run to its end
FutureTimeoutCancels ==
  /\ Alive
  /\ callerPc = "pub_wait_for"
  /\ ~TaskDone
  /\ callerPc' = "idle"
  /\ ret' = Returned("Timeout")
  /\ timerExpired' = TRUE
  /\ task' = [task EXCEPT !.pc = "cancelled"]
  /\ log' = log \cup {<<"warn", "publish timed out", timeout_ms>>}
  /\ UNCHANGED << connected, mapVars, callVars, io, nMsgs, handed, acked >>
  /\ UNCHANGED poolVars

\* faulty variant: the timeout returns at once and leaves the task running,
\* as with a future that does not join in its destructor
FutureTimeoutDetaches ==
  /\ Alive
  /\ callerPc = "pub_wait_for"
  /\ ~TaskDone
  /\ callerPc' = "idle"
  /\ ret' = Returned("Timeout")
  /\ timerExpired' = TRUE
  /\ log' = log \cup {<<"warn", "publish timed out", timeout_ms>>}
  /\ UNCHANGED << connected, mapVars, callVars, io, nMsgs, task, handed,
                  acked >>
  /\ UNCHANGED poolVars

\* wait_for returned timeout: the timer expired with the task unfinished.
\* The function has its result, and leaves through the destructor of the
\* future std::async returned
FutureTimeout ==
  /\ Alive
  /\ callerPc = "pub_wait_for"
  /\ ~TaskDone
  /\ callerPc' = "pub_join"
  /\ timerExpired' = TRUE
  /\ log' = log \cup {<<"warn", "publish timed out", timeout_ms>>}
  /\ UNCHANGED << connected, mapVars, callVars, ret, io, nMsgs, task, handed,
                  acked >>
  /\ UNCHANGED poolVars

\* ~future() of a std::async future blocks until the task has finished;
\* then publishOnTopic returns Timeout
FutureJoin ==
  /\ Alive
  /\ callerPc = "pub_join"
  /\ TaskDone
  /\ callerPc' = "idle"
  /\ ret' = Returned("Timeout")
  /\ UNCHANGED << connected, mapVars, callVars, io, nMsgs, log >>
  /\ UNCHANGED << poolVars, taskVars >>

(* ---------------------------------------------------------------------- *)
(* the subscription map                                                   *)
(* ---------------------------------------------------------------------- *)
Record(t, h) == [topic |-> t, sub |-> h]

\* m_subscriberMap.insert(std::make_pair(topic, subscription))
MapInsert(map, t, h) == map \cup {Record(t, h)}

\* m_subscriberMap.equal_range(topic): the records whose key equals topic
equal_range(map, t) == {r \in map : r.topic = t}

\* faulty variant: erase of the first record found instead of the whole range
MapEraseOne(map, t) ==
  IF equal_range(map, t) = {}
    THEN map
    ELSE map \ {CHOOSE r \in equal_range(map, t) : TRUE}

\* m_subscriberMap.erase(range.first, range.second)
MapErase(map, t) == map \ equal_range(map, t)

HandlesOf(recs) == {r.sub : r \in recs}

\* message_arrived is between the start of its equal_range and the last test
\* of its loop: it reads the map, or holds iterators into it
InLoop == io.pc \in {"lookup", "iter", "copied", "advance"}

(* m_subscriberMap has no lock.  A write to it by the caller thread while  *)
(* message_arrived is between the start of its equal_range and the last    *)
(* test of its loop is a data race on the container and invalidates the    *)
(* iterators the loop holds.  The write itself completes; what the I/O     *)
(* thread does with the map from then on is not determined (see            *)
(* MessageLookup, MessageCopy, MessageNext).  The handles the lookup found *)
(* mean nothing any more; the shared_ptr already copied is the thread's    *)
(* own.                                                                    *)
IoAfterWrite ==
  IF InLoop THEN [io EXCEPT !.racy = TRUE, !.pending = {}] ELSE io

(* ---------------------------------------------------------------------- *)
(* subscribeTopic(topic), unsubscribeTopic(topic)                         *)
(* ---------------------------------------------------------------------- *)
\* m_client.subscribe(topic, 0) and m_client.unsubscribe(topic) as requests
\* handed to the broker client
SubscribeReq(t)   == <<t, "SUBSCRIBE">>
UnsubscribeReq(t) == <<t, "UNSUBSCRIBE">>

\* make_shared, insert, then m_client.subscribe(topic, 0): a token to wait
\* on, or a throw, which leaves subscribeTopic
SubscribeTopic ==
  \E t \in SubTopics :
    /\ Enter("subscribeTopic", t, "none", 0)
    /\ nextSub <= MaxSubs
    /\ log' = {<<"debug", "subscribing">>}
    /\ m_subscriberMap' = MapInsert(m_subscriberMap, t, nextSub)
    /\ nextSub' = nextSub + 1
    /\ unsubscribed' = unsubscribed \ {t}
    /\ io' = IoAfterWrite
    /\ \E out \in {"token"} \cup ErrorKinds :
         IF out = "token"
           THEN /\ callerPc' = "sub_wait"
                /\ ret' = NoRet
                /\ handed' = {SubscribeReq(t)}
           ELSE /\ callerPc' = "idle"
                /\ ret' = Threw(out)
                /\ handed' = {}
    /\ UNCHANGED << connected, timeout_ms, nMsgs >>
    /\ task' = IdleTask /\ timerExpired' = FALSE /\ acked' = {}
    /\ UNCHANGED poolVars

\* faulty variant: subscribeTopic returns its handle without waiting for the
\* broker's acknowledgement
SubscribeNoWait ==
  /\ Alive
  /\ callerPc = "sub_wait"
  /\ callerPc' = "idle"
  /\ acked' = acked
  /\ ret' = Returned(nextSub - 1)
  /\ UNCHANGED << connected, mapVars, callVars, io, nMsgs, log >>
  /\ UNCHANGED << poolVars, task, handed, timerExpired >>

\* ->wait() of the subscribe token, then return subscription
SubscribeWait ==
  /\ Alive
  /\ callerPc = "sub_wait"
  /\ callerPc' = "idle"
  /\ \E out \in {"ok", "mqtt"} :
       IF out = "ok"
         THEN /\ acked' = acked \cup {SubscribeReq(topic)}
              /\ ret' = Returned(nextSub - 1)
         ELSE /\ acked' = acked
              /\ ret' = Threw(out)
  /\ UNCHANGED << connected, mapVars, callVars, io, nMsgs, log >>
  /\ UNCHANGED << poolVars, task, handed, timerExpired >>

\* m_client.unsubscribe(topic): a token to wait on, or a throw
UnsubscribeTopic ==
  \E t \in SubTopics :
    /\ Enter("unsubscribeTopic", t, "none", 0)
    /\ log' = {<<"debug", "unsubscribing">>}
    /\ \E out \in {"token"} \cup ErrorKinds :
         IF out = "token"
           THEN /\ callerPc' = "unsub_wait"
                /\ ret' = NoRet
                /\ handed' = {UnsubscribeReq(t)}
           ELSE /\ callerPc' = "idle"
                /\ ret' = Threw(out)
                /\ handed' = {}
    /\ UNCHANGED << connected, mapVars, timeout_ms, io, nMsgs >>
    /\ task' = IdleTask /\ timerExpired' = FALSE /\ acked' = {}
    /\ UNCHANGED poolVars

\* ->wait() of the unsubscribe token, then equal_range and erase
UnsubscribeWait ==
  /\ Alive
  /\ callerPc = "unsub_wait"
  /\ callerPc' = "idle"
  /\ \E out \in {"ok", "mqtt"} :
       IF out = "ok"
         THEN /\ m_subscriberMap' = MapErase(m_subscriberMap, topic)
              /\ unsubscribed' = unsubscribed \cup {topic}
              /\ io' = (IF m_subscriberMap' = m_subscriberMap
                          THEN io ELSE IoAfterWrite)
              /\ acked' = acked \cup {UnsubscribeReq(topic)}
              /\ ret' = Returned("void")
         ELSE /\ UNCHANGED << m_subscriberMap, unsubscribed, io, acked >>
              /\ ret' = Threw(out)
  /\ UNCHANGED << connected, nextSub, callVars, nMsgs, log >>
  /\ UNCHANGED << poolVars, task, handed, timerExpired >>

(* ---------------------------------------------------------------------- *)
(* message_arrived, on the broker library's I/O thread                    *)
(* ---------------------------------------------------------------------- *)
Job(h, m, p) == [sub |-> h, msg |-> m, payload |-> p]

\* the handles registered under exactly the topic string t
RegisteredUnder(t) == {r.sub : r \in {x \in m_subscriberMap : x.topic = t}}

\* every handle made so far
Made == 1..(nextSub - 1)

\* the I/O thread reads a node that was freed or is being relinked, and the
\* process ends by a fault
Faulted(i) == [i EXCEPT !.pc = "crashed"]

\* message_arrived returns
Returns(i) == [i EXCEPT !.pc = "idle", !.racy = FALSE, !.callerAt = "other"]

\* get_topic, get_payload_str: the handler is about to call equal_range
MessageArrived ==
  \E t \in MsgTopics, p \in Payloads :
    /\ io.pc = "idle"
    /\ nMsgs < MaxMsgs
    /\ nMsgs' = nMsgs + 1
    /\ io' = [pc |-> "lookup",
              msg |-> nMsgs + 1, topic |-> t, payload |-> p,
              range |-> RegisteredUnder(t), pending |-> {}, enq |-> {},
              cur |-> 0, racy |-> FALSE,
              callerAt |-> IF callerPc \in {"sub_wait", "unsub_wait"}
                              /\ topic = t /\ RegisteredUnder(t) # {}
                             THEN callerPc ELSE "other"]
    /\ UNCHANGED << connected, mapVars, callerPc, callVars, ret, log >>
    /\ UNCHANGED << poolVars, taskVars >>

\* equal_range(topic) and the first it != range.second.  Raced by a write,
\* equal_range faults, finds nothing, or finds records that are or were
\* under the topic, through iterators that are not valid
MessageLookup ==
  /\ io.pc = "lookup"
  /\ LET found == HandlesOf(equal_range(m_subscriberMap, io.topic))
     IN  IF ~io.racy
           THEN io' = IF found = {}
                        THEN Returns([io EXCEPT !.range = found])
                        ELSE [io EXCEPT !.pc = "iter", !.range = found,
                                        !.pending = found]
           ELSE \/ io' = Faulted(io)
                \/ io' = Returns(io)
                \/ /\ io.range \cup found # {}
                   /\ io' = [io EXCEPT !.pc = "iter"]
  /\ UNCHANGED << connected, mapVars, callerPc, callVars, ret, nMsgs, log >>
  /\ UNCHANGED << poolVars, taskVars >>

\* auto subscription = it->second.  Through an iterator that is not valid
\* the read faults, or gives the handle of a node the loop has not visited
MessageCopy ==
  /\ io.pc = "iter"
  /\ IF ~io.racy
       THEN \E h \in io.pending :
              io' = [io EXCEPT !.pc = "copied", !.cur = h, !.pending = @ \ {h}]
       ELSE \/ io' = Faulted(io)
            \/ \E h \in Made \ io.enq :
                 io' = [io EXCEPT !.pc = "copied", !.cur = h]
  /\ UNCHANGED << connected, mapVars, callerPc, callVars, ret, nMsgs, log >>
  /\ UNCHANGED << poolVars, taskVars >>

\* faulty variant: the job is put at the front of the pool's queue
MessageEnqueueFront ==
  /\ io.pc = "copied"
  /\ queue' = << Job(io.cur, io.msg, io.payload) >> \o queue
  /\ io' = [io EXCEPT !.pc = "advance", !.enq = @ \cup {io.cur}, !.cur = 0]
  /\ UNCHANGED << connected, mapVars, callerPc, callVars, ret, nMsgs, log >>
  /\ UNCHANGED << running, escaped, inbox, taskVars >>

\* the copied shared_ptr and the payload go into a job, which is enqueued
MessageEnqueue ==
  /\ io.pc = "copied"
  /\ queue' = Append(queue, Job(io.cur, io.msg, io.payload))
  /\ io' = [io EXCEPT !.pc = "advance", !.enq = @ \cup {io.cur}, !.cur = 0]
  /\ UNCHANGED << connected, mapVars, callerPc, callVars, ret, nMsgs, log >>
  /\ UNCHANGED << running, escaped, inbox, taskVars >>

\* ++it and it != range.second: the next turn, or message_arrived returns.
\* Through an iterator that is not valid ++it faults, or gives an iterator
\* that ends the loop or starts another turn
MessageNext ==
  /\ io.pc = "advance"
  /\ IF ~io.racy
       THEN io' = IF io.pending = {}
                    THEN Returns(io) ELSE [io EXCEPT !.pc = "iter"]
       ELSE \/ io' = Faulted(io)
            \/ io' = Returns(io)
            \/ io' = [io EXCEPT !.pc = "iter"]
  /\ UNCHANGED << connected, mapVars, callerPc, callVars, ret, nMsgs, log >>
  /\ UNCHANGED << poolVars, taskVars >>

(* ---------------------------------------------------------------------- *)
(* the thread pool and the delivery job                                   *)
(* ---------------------------------------------------------------------- *)
\* a free worker takes the oldest job
JobStart ==
  /\ Alive
  /\ queue # << >>
  /\ Cardinality(running) < NumWorkers
  /\ running' = running \cup {Head(queue)}
  /\ queue' = Tail(queue)
  /\ UNCHANGED << connected, mapVars, callerPc, callVars, ret, io, nMsgs, log >>
  /\ UNCHANGED << escaped, inbox, taskVars >>

\* AsyncSubscription::insertNewItem: the subscription receives the payload
InsertNewItem(box, j) ==
  Append(box, [kind |-> "item", msg |-> j.msg, payload |-> j.payload])

\* AsyncSubscription::insertError: the subscription receives an error
InsertError(box, j) ==
  Append(box, [kind |-> "error", msg |-> j.msg, payload |-> "none"])

\* faulty variant: the job without its try and catch
JobCatchesNothing(k) == FALSE

\* the catch clause of the job: std::exception, which mqtt::exception
\* derives from
JobCatches(k) == k \in {"mqtt", "std"}

\* the job's body for job j, insertNewItem ending as out: "ok", or the kind
\* of exception it raised
DeliveryJob(j, out) ==
  /\ running' = running \ {j}
  /\ IF out = "ok"
       THEN /\ inbox' = [inbox EXCEPT ![j.sub] = InsertNewItem(@, j)]
            /\ escaped' = escaped
       ELSE IF JobCatches(out)
              THEN /\ inbox' = [inbox EXCEPT ![j.sub] = InsertError(@, j)]
                   /\ escaped' = escaped
              ELSE /\ inbox' = inbox
                   /\ escaped' = escaped \cup {j}

JobRun ==
  /\ Alive
  /\ \E j \in running, out \in {"ok"} \cup ErrorKinds : DeliveryJob(j, out)
  /\ UNCHANGED << connected, mapVars, callerPc, callVars, ret, io, nMsgs, log >>
  /\ UNCHANGED << queue, taskVars >>

(* ---------------------------------------------------------------------- *)
(* The operations fall into two groups that share the caller thread and    *)
(* nothing else: the actions of either group leave the map, the I/O        *)
(* thread, the pool and the subscriptions, or the connection and the       *)
(* publish task, as they are.  Next is the whole program; PublishSpec and  *)
(* DeliverySpec are the program with the caller thread staying within one  *)
(* group.                                                                  *)
(* ---------------------------------------------------------------------- *)
\* the caller thread uses the connection and publishes
PublishNext ==
  \/ Connect
  \/ ConnectWait
  \/ Disconnect
  \/ DisconnectWait
  \/ ConnectionLost
  \/ Reconnect
  \/ ReconnectWait
  \/ PublishOnTopic
  \/ PublishWait
  \/ PublishOnTopicTimeout
  \/ TaskPublish
  \/ TaskWait
  \/ FutureReady
  \/ FutureTimeout
  \/ FutureJoin

\* the caller thread subscribes and unsubscribes, messages arrive and are
\* delivered
DeliveryNext ==
  \/ SubscribeTopic
  \/ SubscribeWait
  \/ UnsubscribeTopic
  \/ UnsubscribeWait
  \/ MessageArrived
  \/ MessageLookup
  \/ MessageCopy
  \/ MessageEnqueue
  \/ MessageNext
  \/ JobStart
  \/ JobRun

Next == PublishNext \/ DeliveryNext

Spec == Init /\ [][Next]_vars

PublishSpec == Init /\ [][PublishNext]_vars

\* the publish task is a thread of its own and is scheduled; the broker
\* library completes every publish token, with an acknowledgement or with
\* an error
PublishFairSpec ==
  PublishSpec /\ WF_vars(TaskPublish) /\ WF_vars(TaskWait)

DeliverySpec == Init /\ [][DeliveryNext]_vars

\* the pool's workers are scheduled, and a job that runs ends
DeliveryFairSpec ==
  DeliverySpec /\ WF_vars(JobStart) /\ WF_vars(JobRun)

\* the caller thread uses the operations that block on the broker, with no
\* inbound message
BlockingNext ==
  \/ Connect
  \/ ConnectWait
  \/ Disconnect
  \/ DisconnectWait
  \/ ConnectionLost
  \/ Reconnect
  \/ ReconnectWait
  \/ PublishOnTopic
  \/ PublishWait
  \/ SubscribeTopic
  \/ SubscribeWait
  \/ UnsubscribeTopic
  \/ UnsubscribeWait

BlockingSpec == Init /\ [][BlockingNext]_vars

(* ====================================================================== *)
(* Properties of publishOnTopic(topic, data, timeout_ms) and reconnect    *)
(* ====================================================================== *)
TimedPublish == op = "publishOnTopicTimeout"
Statuses == {"Success", "Timeout", "Failure"}
MinOf(a, b) == IF a <= b THEN a ELSE b

\* C1: a timed publish called with timeout_ms <= 0 returns Timeout at once;
\* no background task exists for it and it hands nothing to the broker
\* client, whatever the topic, the payload and the connection state.
C1_NonPositiveTimeoutIsTimeout ==
  (TimedPublish /\ requested <= 0) =>
     /\ callerPc = "idle"
     /\ ret = Returned("Timeout")
     /\ task = IdleTask
     /\ handed = {}
     /\ acked = {}

\* C1 happens: a timed publish with timeout 0 has returned while connected
C1_Witness ==
  TimedPublish /\ requested = 0 /\ connected /\ ret = Returned("Timeout")

\* C2 (as claimed): a timed publish with timeout_ms > 0 that has returned
\* gave one of Success, Timeout, Failure and threw nothing: Success exactly
\* when the task's publish was acknowledged before the timer expired, Failure
\* exactly when the task raised an error before the timer expired, Timeout
\* exactly when the timer expired first.
C2_TriStateResult ==
  (TimedPublish /\ requested > 0 /\ callerPc = "idle") =>
     /\ ret.kind = "returned"
     /\ ret.val \in Statuses
     /\ (ret.val = "Success") <=> (~timerExpired /\ task.pc = "ok")
     /\ (ret.val = "Failure") <=> (~timerExpired /\ task.pc = "failed")
     /\ (ret.val = "Timeout") <=> timerExpired

\* C2 (amended): as claimed, but Failure exactly when, before the timer
\* expired, the task raised an error or std::async could not start the task.
C2_TriStateResultOrNoTask ==
  (TimedPublish /\ requested > 0 /\ callerPc = "idle") =>
     /\ ret.kind = "returned"
     /\ ret.val \in Statuses
     /\ (ret.val = "Success") <=> (~timerExpired /\ task.pc = "ok")
     /\ (ret.val = "Failure") <=>
          (~timerExpired /\ task.pc \in {"failed", "none"})
     /\ (ret.val = "Timeout") <=> timerExpired

\* C2 happens: std::async could not start the task, so nothing was handed to
\* the library, and the call returned Failure and logged the error
C2_Witness ==
  /\ TimedPublish /\ requested > 0 /\ callerPc = "idle"
  /\ task = IdleTask /\ handed = {}
  /\ ret = Returned("Failure")
  /\ <<"error", "publish failed", "std">> \in log

\* C3 (as claimed): once the timer has expired with the publish unfinished,
\* the call returns Timeout at that point: its return does not wait for the
\* background publish.
C3_TimeoutReturnsAtExpiry ==
  (TimedPublish /\ timerExpired /\ callerPc # "idle") => ENABLED FutureJoin

\* C4: a publish task that was started runs to its end, also when the timer
\* expired first: the timeout does not cancel it.
C4_TaskRunsToCompletion ==
  (task.pc \in {"running", "waiting"}) ~> TaskDone

\* C4 happens: the caller was told Timeout and the broker acknowledged the
\* message of that call
C4_Witness ==
  /\ TimedPublish /\ callerPc = "idle" /\ ret = Returned("Timeout")
  /\ timerExpired
  /\ task.pc = "ok"
  /\ <<topic, data>> \in acked

\* C5 (as claimed): reconnect never ends by an exception, whatever the
\* timeout and whatever the broker library's reconnect does.
C5_ReconnectNeverThrows ==
  (op = "reconnect") => ret.kind # "threw"

\* C6: while reconnect or the timed publish waits, and in what they log
\* about a timeout, the wait is min(timeout_ms, 30000) of the timeout_ms
\* that was passed.
C6_EffectiveTimeout ==
  /\ (callerPc \in {"reconnect_wait", "pub_wait_for"}) =>
        timeout_ms = MinOf(requested, 30000)
  /\ \A e \in log :
        (Len(e) = 3 /\ e[2] \in {"reconnect timed out", "publish timed out"}) =>
           e[3] = MinOf(requested, 30000)

\* C6 happens: a timed publish asked for 30001 ms waits 30000 ms
C6_Witness ==
  /\ callerPc = "pub_wait_for"
  /\ requested = 30001
  /\ timeout_ms = 30000

(* ====================================================================== *)
(* Properties of the subscription map, message_arrived and delivery       *)
(* ====================================================================== *)
AB == <<"a", "b">>
APlus == <<"a", "+">>

\* C7 (as claimed): the handler of a message on topic t enqueues exactly one
\* job for each handle registered under exactly t when the message is looked
\* up and none for any other handle; with no such handle it enqueues none.
C7_ExactTopicFanOut ==
  /\ io.enq \subseteq io.range
  /\ (io.cur # 0) => (io.cur \in io.range \ io.enq)
  /\ (io.pc = "idle") => (io.enq = io.range)

\* the step in which job j ends
JobEnds(j) == j \in running /\ j \notin running'

\* C8: a delivery job that ends has appended to its own subscription the
\* payload its message had on arrival or, when that push threw, an error for
\* that message, and to no other subscription; no exception leaves a job.
\* The job's payload is the payload of the message it was made for.
C8_JobNotifiesSubscription ==
  [][ /\ \A j \in running :
           JobEnds(j) =>
             /\ \/ inbox'[j.sub] = Append(inbox[j.sub],
                        [kind |-> "item", msg |-> j.msg, payload |-> j.payload])
                \/ inbox'[j.sub] = Append(inbox[j.sub],
                        [kind |-> "error", msg |-> j.msg, payload |-> "none"])
             /\ \A h \in Subs \ {j.sub} : inbox'[h] = inbox[h]
             /\ escaped' = {}
      /\ (Len(queue') > Len(queue)) =>
           /\ queue'[Len(queue')].msg = io.msg
           /\ queue'[Len(queue')].payload = io.payload
    ]_vars

\* C8 happens: one subscription got an error for a message and a payload for
\* another
C8_Witness ==
  \E h \in Subs :
    /\ Len(inbox[h]) = 2
    /\ {inbox[h][1].kind, inbox[h][2].kind} = {"item", "error"}
    /\ escaped = {}

\* the step in which unsubscribeTopic returns normally
UnsubscribeReturns ==
  callerPc = "unsub_wait" /\ callerPc' = "idle" /\ ret'.kind = "returned"

\* the step in which a message arrives
Arrives == nMsgs' = nMsgs + 1

\* C9: unsubscribeTopic(t) that returns has removed every record under t and
\* no record of another topic; a message on t that arrives after it returned
\* has no record under t, and as long as there was no new subscribeTopic(t)
\* its lookup starts no turn of the loop, so that it enqueues no job.
C9_UnsubscribeRemovesAll ==
  [][ /\ UnsubscribeReturns =>
           m_subscriberMap' = {r \in m_subscriberMap : r.topic # topic}
      /\ (Arrives /\ io'.topic \in unsubscribed) => (io'.range = {})
      /\ (io.pc = "lookup" /\ io.range = {} /\ io.topic \in unsubscribed) =>
           /\ io'.pc \in {"lookup", "idle", "crashed"}
           /\ io'.enq = {}
           /\ Len(queue') <= Len(queue)
    ]_vars

\* C9 happens: two subscribeTopic("a/b") made two records, unsubscribeTopic
\* removed both, and a message on a/b arrived afterwards
C9_Witness ==
  /\ nextSub = 3
  /\ unsubscribed = {AB}
  /\ m_subscriberMap = {}
  /\ op = "unsubscribeTopic" /\ callerPc = "idle" /\ ret = Returned("void")
  /\ nMsgs = 1
  /\ io.topic = AB /\ io.pc = "idle" /\ io.range = {}
  /\ queue = << >> /\ running = {}

\* the step in which subscribeTopic inserts its record
Subscribes == nextSub' = nextSub + 1

\* C10 (as claimed): each subscribeTopic(t) adds exactly one record, under t
\* and for a handle no earlier record has, and keeps every record there was,
\* so n calls leave n records under t; and the handler of a message on t
\* enqueues a job for each of the handles registered under t when it arrived.
C10_RecordsCoexist ==
  /\ [][ Subscribes =>
            /\ m_subscriberMap' = m_subscriberMap \cup {Record(topic', nextSub)}
            /\ nextSub \notin HandlesOf(m_subscriberMap)
        ]_vars
  /\ []((io.pc = "idle") => (io.range \subseteq io.enq))

(* ====================================================================== *)
(* Properties of the blocking operations and of error propagation         *)
(* ====================================================================== *)
BlockingOps == {"subscribeTopic", "unsubscribeTopic", "publishOnTopic"}

\* the broker-level request of the blocking operation the caller is in
RequestOf ==
  CASE op = "subscribeTopic"   -> SubscribeReq(topic)
    [] op = "unsubscribeTopic" -> UnsubscribeReq(topic)
    [] OTHER                   -> <<topic, data>>

\* C11: subscribeTopic, unsubscribeTopic and publishOnTopic(topic, data)
\* return only after the broker acknowledged their subscribe, unsubscribe or
\* publish: a call that has returned has its request acknowledged, and a call
\* whose request is not acknowledged is still inside the call, with nothing
\* returned.
C11_ReturnOnlyAfterAck ==
  (op \in BlockingOps) =>
     /\ (callerPc = "idle" /\ ret.kind = "returned") => RequestOf \in acked
     /\ (callerPc # "idle") =>
          /\ RequestOf \in handed
          /\ RequestOf \notin acked
          /\ ret = NoRet

\* C11 happens: subscribeTopic returned its handle and the broker had
\* acknowledged the subscribe
C11_Witness ==
  /\ op = "subscribeTopic" /\ callerPc = "idle"
  /\ ret = Returned(1)
  /\ SubscribeReq(topic) \in acked

\* the operations that have no try block of their own
UnguardedOps == {"connect", "disconnect", "publishOnTopic", "subscribeTopic",
                 "unsubscribeTopic"}

\* C12 (as claimed): an error the broker library raises during connect,
\* disconnect, publishOnTopic(topic, data), subscribeTopic or unsubscribeTopic
\* is caught inside the adapter: none of these calls ends by an exception.
C12_LibraryErrorsNotPropagated ==
  (op \in UnguardedOps) => ret.kind # "threw"

(* ====================================================================== *)
(* Properties of delivery order and of the unlocked subscription map      *)
(* ====================================================================== *)
\* C13: delivery jobs stand in the pool's queue in the order their messages
\* arrived, and no job waiting there is of a later message than the one
\* message_arrived is handling; nothing orders the jobs once workers run
\* them, so the pushes into one subscription can come in the other order.
C13_EnqueuedInArrivalOrder ==
  /\ \A i, k \in 1..Len(queue) : (i < k) => (queue[i].msg <= queue[k].msg)
  /\ \A i \in 1..Len(queue) : queue[i].msg <= nMsgs

\* C13 happens: two messages arrived on a/b in the order 1, 2 with one
\* subscription registered, and the subscription received 2 before 1
C13_Witness ==
  /\ m_subscriberMap = {Record(AB, 1)} /\ nextSub = 2
  /\ Len(inbox[1]) = 2
  /\ inbox[1][1].kind = "item" /\ inbox[1][1].msg = 2
  /\ inbox[1][2].kind = "item" /\ inbox[1][2].msg = 1

\* message_arrived is between its equal_range and the end of its loop
Iterating == InLoop

\* C14 (as claimed): the subscription map is never accessed by two threads
\* at once: no insert by subscribeTopic and no erase by unsubscribeTopic
\* changes the map while message_arrived is iterating over its records.
C14_MapNeverSharedUnlocked ==
  [][ ~(Iterating /\ m_subscriberMap' # m_subscriberMap) ]_vars

(* ====================================================================== *)
(* Lifetime of what the publish task captured by reference                *)
(* ====================================================================== *)
\* the step in which the task calls m_client.publish(topic, data) through
\* the references it captured
TaskUsesArguments == task.pc = "running" /\ task'.pc \in {"waiting", "failed"}

\* C15: the publish task uses the caller's topic and data only while the
\* timed publish that started it has not returned, and a task that has still
\* to use them exists only inside that call; on the Success, Failure and
\* Timeout paths alike.
C15_ArgumentsOutliveTask ==
  /\ [][ TaskUsesArguments =>
           (TimedPublish /\ callerPc \in {"pub_wait_for", "pub_join"}) ]_vars
  /\ []((task.pc = "running") =>
           (TimedPublish /\ callerPc \in {"pub_wait_for", "pub_join"}))

\* C15 happens: the timer expired, the task published through the references
\* and ended, and only then the call returned Timeout
C15_Witness ==
  /\ TimedPublish /\ callerPc = "idle" /\ ret = Returned("Timeout")
  /\ timerExpired
  /\ task.pc = "failed"
  /\ handed = {<<topic, data>>}

(* ====================================================================== *)
(* Order of the map update and the broker request                         *)
(* ====================================================================== *)
\* C16 (as claimed): while subscribeTopic(t) waits for the broker its record
\* is in the map already, and while unsubscribeTopic(t) waits the records
\* under t are in the map still; so a message on t that arrives during either
\* wait finds them, and its handler enqueues a job for each handle it found.
C16_RecordCoversPendingCall ==
  /\ []((callerPc = "sub_wait") =>
          (Record(topic, nextSub - 1) \in m_subscriberMap))
  /\ [][ (callerPc = "unsub_wait" /\ callerPc' = "unsub_wait") =>
            (m_subscriberMap' = m_subscriberMap) ]_vars
  /\ [][ (Arrives /\ callerPc = "sub_wait" /\ io'.topic = topic) =>
            ((nextSub - 1) \in io'.range) ]_vars
  /\ [][ (io.callerAt \in {"sub_wait", "unsub_wait"} /\ io'.pc = "idle") =>
            (io.range \subseteq io'.enq) ]_vars

\* C17 (as claimed): a subscribeTopic or unsubscribeTopic that ends by an
\* error of the broker-level request leaves the map as it was before the
\* call: the failed subscribeTopic leaves no record for the handle it made
\* and never returned, and the failed unsubscribeTopic removes no record.
C17_FailedCallLeavesMap ==
  /\ []((op = "subscribeTopic" /\ ret.kind = "threw") =>
          ((nextSub - 1) \notin HandlesOf(m_subscriberMap)))
  /\ [][ (op' = "unsubscribeTopic" /\ ret'.kind = "threw") =>
            (m_subscriberMap' = m_subscriberMap) ]_vars

(* ====================================================================== *)
(* Jobs in the pool and the removal of their record                       *)
(* ====================================================================== *)
\* a job for handle h and message m is in the pool, waiting or running
InPool(h, m) ==
  \/ \E i \in 1..Len(queue) : queue[i].sub = h /\ queue[i].msg = m
  \/ \E j \in running : j.sub = h /\ j.msg = m

\* handle h has received the item, or the error, of message m
Notified(h, m) == \E i \in 1..Len(inbox[h]) : inbox[h][i].msg = m

\* a job is in the pool, waiting or running
PoolBusy == queue # << >> \/ running # {}

\* C18 (as claimed): a change of the map, the erase of unsubscribeTopic
\* included, leaves the jobs in the pool as they are and able to run; a job
\* that ends has notified its own handle, whether the handle's record is
\* still in the map or not; and with the workers scheduled every job in the
\* pool ends so.
C18_EnqueuedJobSurvivesUnsubscribe ==
  /\ [][ (m_subscriberMap' # m_subscriberMap) =>
            (queue' = queue /\ running' = running) ]_vars
  /\ [][ \A j \in running :
            JobEnds(j) => (Len(inbox'[j.sub]) = Len(inbox[j.sub]) + 1
                           /\ inbox'[j.sub][Len(inbox'[j.sub])].msg = j.msg) ]_vars
  /\ [](PoolBusy => (ENABLED JobStart \/ ENABLED JobRun))
  /\ \A h \in Subs : \A m \in 1..MaxMsgs : InPool(h, m) ~> Notified(h, m)

(* ====================================================================== *)
(* reconnect with a timeout that is not positive                          *)
(* ====================================================================== *)
\* the step in which a call begins
CallBegins == callerPc = "idle" /\ (op' # op \/ requested' # requested)

\* C19: reconnect called with timeout_ms <= 0 returns without asking the
\* broker library: it is never waiting for a reconnect, it has returned, it
\* handed nothing to the broker client and logged the invalid timeout, and
\* the step of the call leaves the connection state and the map as they
\* were.
C19_NonPositiveReconnectIsNoOp ==
  /\ []((op = "reconnect" /\ requested <= 0) =>
          /\ callerPc = "idle"
          /\ ret = Returned("void")
          /\ handed = {}
          /\ log = {<<"info", "reconnecting">>, <<"error", "invalid timeout">>})
  /\ [][ (CallBegins /\ op' = "reconnect" /\ requested' <= 0) =>
            /\ connected' = connected
            /\ m_subscriberMap' = m_subscriberMap ]_vars

\* C19 happens: reconnect(0) has returned with the adapter connected and a
\* record in the map
C19_Witness ==
  /\ op = "reconnect" /\ requested = 0 /\ callerPc = "idle"
  /\ connected
  /\ m_subscriberMap = {Record(AB, 1)}

====
